---- MODULE Spec2Model ----
(***************************************************************************)
(* Model of mmengine/evaluator/metric.py: BaseMetric (accumulate per-batch *)
(* results, evaluate them across the workers of a distributed run),        *)
(* DumpResults (dump the collected predictions to a pickle file) and the   *)
(* helper _to_cpu.                                                         *)
(*                                                                         *)
(* Workers run the same program (one metric instance each, built from the  *)
(* same configuration); worker 1 is the main process (rank 0).             *)
(***************************************************************************)
EXTENDS Integers, Sequences, FiniteSets, TLC

\* ------------------------------------------------------------------ bounds

\* Largest number of entries a worker's self.results holds.
MaxLen == 2
\* Largest number of evaluate() calls per worker.
MaxRounds == 2
\* Nesting depth and container width of the values fed to _to_cpu alone.
MaxDepth == 1
MaxWidth == 2

\* ------------------------------------------------------------------ values

\* A Python value, as far as _to_cpu tells values apart.  tag is the type:
\* "tensor" (torch.Tensor), "elem" (BaseDataElement), "list", "tuple", "dict",
\* "other" (anything else).  dev is the device of a tensor-like value, val its
\* payload; a dict is its keys in insertion order and the values beside them.
Tensor(d, v) == [tag |-> "tensor", dev |-> d, val |-> v, keys |-> <<>>, items |-> <<>>]
Elem(d, v) == [tag |-> "elem", dev |-> d, val |-> v, keys |-> <<>>, items |-> <<>>]
Other(v) == [tag |-> "other", dev |-> "-", val |-> v, keys |-> <<>>, items |-> <<>>]
PyList(xs) == [tag |-> "list", dev |-> "-", val |-> 0, keys |-> <<>>, items |-> xs]
PyTuple(xs) == [tag |-> "tuple", dev |-> "-", val |-> 0, keys |-> <<>>, items |-> xs]
PyDict(ks, xs) == [tag |-> "dict", dev |-> "-", val |-> 0, keys |-> ks, items |-> xs]

\* data.to('cpu') of a Tensor or a BaseDataElement: a copy on the host.
ToHost(data) == [data EXCEPT !.dev = "cpu"]

\* Faulty variant of _to_cpu: the tuple branch builds a list.
RECURSIVE ToCpuTupleAsList(_)
ToCpuTupleAsList(data) ==
    IF data.tag \in {"tensor", "elem"} THEN ToHost(data)
    ELSE IF data.tag \in {"list", "tuple"}
    THEN PyList([i \in 1..Len(data.items) |-> ToCpuTupleAsList(data.items[i])])
    ELSE IF data.tag = "dict"
    THEN PyDict(data.keys, [i \in 1..Len(data.items) |-> ToCpuTupleAsList(data.items[i])])
    ELSE data

\* def _to_cpu(data): transfer all tensors and BaseDataElement to cpu.
RECURSIVE _to_cpu(_)
_to_cpu(data) ==
    IF data.tag \in {"tensor", "elem"} THEN ToHost(data)
    ELSE IF data.tag = "list"
    THEN PyList([i \in 1..Len(data.items) |-> _to_cpu(data.items[i])])
    ELSE IF data.tag = "tuple"
    THEN PyTuple([i \in 1..Len(data.items) |-> _to_cpu(data.items[i])])
    ELSE IF data.tag = "dict"
    THEN PyDict(data.keys, [i \in 1..Len(data.items) |-> _to_cpu(data.items[i])])
    ELSE data

\* _to_cpu of a Python list held as a sequence (self.results, a batch of
\* predictions): the list branch, element by element.
ToCpuList(xs) == _to_cpu(PyList(xs)).items

\* --------------------------------------------------------- Python helpers

\* Optional[...]: None is the empty sequence, a value x is <<x>>.
None == <<>>
Some(x) == <<x>>

\* Truth value of an Optional[str]: None and '' are false.
Truthy(p) == p # None /\ p[1] # ""

\* xs[:n]
Take(xs, n) == SubSeq(xs, 1, IF n < Len(xs) THEN n ELSE Len(xs))

\* A path is its characters.  s.endswith(suf)
EndsWith(s, suf) ==
    Len(s) >= Len(suf) /\ SubSeq(s, Len(s) - Len(suf) + 1, Len(s)) = suf

ExtPkl == <<".", "p", "k", "l">>
ExtPickle == <<".", "p", "i", "c", "k", "l", "e">>
OutStem == <<"o", "u", "t">>

\* The output paths a configuration may name.
Paths ==
    { OutStem \o ExtPkl,
      OutStem \o ExtPickle,
      OutStem \o <<".", "j", "s", "o", "n">>,
      OutStem \o ExtPkl \o <<".", "b", "a", "k">>,
      OutStem \o <<"p", "k", "l">>,
      OutStem \o <<".", "P", "K", "L">> }

\* Faulty variant: only '.pkl' is accepted.
OutFileOkPklOnly(path) == EndsWith(path, ExtPkl)

\* out_file_path.endswith(('.pkl', '.pickle'))
OutFileOk(path) == EndsWith(path, ExtPkl) \/ EndsWith(path, ExtPickle)

\* ------------------------------------------------------------ the variants

\* The metric classes of a run: DumpResults, and three subclasses of
\* BaseMetric that differ in the class attribute default_prefix.  Their
\* process() stores the model outputs as they come, their compute_metrics()
\* counts the results ("n") and those of them that live on the host ("host").
Variants == {"DumpResults", "AccMetric", "BareMetric", "BlankMetric"}

\* The class attribute default_prefix.
default_prefix(v) ==
    CASE v = "AccMetric" -> Some("acc")
      [] v = "BlankMetric" -> Some("")
      [] OTHER -> None

\* The prefix arguments a configuration may give (DumpResults takes none).
PrefixArgs(v) == IF v = "DumpResults" THEN {None} ELSE {None, Some(""), Some("m")}

\* The out_file_path arguments (only DumpResults takes one).
PathArgs(v) == IF v = "DumpResults" THEN {Some(p) : p \in Paths} ELSE {None}

\* self.prefix = prefix or self.default_prefix
ResolvePrefix(arg, dflt) == IF Truthy(arg) THEN arg ELSE dflt

\* A metrics mapping: its (key, value) pairs in insertion order.
\* Faulty variant: the key comes first, the prefix second.
AddPrefixSwapped(p, m) ==
    IF Truthy(p)
    THEN [i \in 1..Len(m) |-> <<m[i][1] \o "/" \o p[1], m[i][2]>>]
    ELSE m

\* if self.prefix: _metrics = {'/'.join((self.prefix, k)): v for k, v in ...}
AddPrefix(p, m) ==
    IF Truthy(p)
    THEN [i \in 1..Len(m) |-> <<p[1] \o "/" \o m[i][1], m[i][2]>>]
    ELSE m

\* The number of entries of xs that hold nothing off the host.
RECURSIVE HostCount(_)
HostCount(xs) ==
    IF xs = <<>> THEN 0
    ELSE (IF _to_cpu(Head(xs)) = Head(xs) THEN 1 ELSE 0) + HostCount(Tail(xs))

\* Faulty variant: a batch is stored as one entry.
ProcessAppendBatch(v, acc, predictions) ==
    IF v = "DumpResults"
    THEN Append(acc, _to_cpu(PyList(predictions)))
    ELSE acc \o predictions

\* process(): what self.results holds afterwards.
\* DumpResults: self.results.extend(_to_cpu(predictions))
Process(v, acc, predictions) ==
    IF v = "DumpResults"
    THEN acc \o ToCpuList(predictions)
    ELSE acc \o predictions

\* compute_metrics(): the mapping it returns.  DumpResults returns {}.
ComputeMetrics(v, rs) ==
    IF v = "DumpResults"
    THEN <<>>
    ELSE << <<"n", Len(rs)>>, <<"host", HostCount(rs)>> >>

\* The model outputs a batch is made of: a prediction with a score on the
\* device, and one that is on the host already.
Samples ==
    { PyDict(<<"id", "score">>, <<Other(1), Tensor("gpu", 9)>>),
      PyDict(<<"id", "score">>, <<Other(2), Tensor("cpu", 1)>>) }

Batches == UNION { [1..n -> Samples] : n \in 0..MaxLen }

\* The dataset lengths, which evaluate is called with: they cut everything,
\* cut some, cut nothing.
Sizes == {0, 1, 2 * MaxLen}

\* ------------------------------------------------------------------- state

VARIABLES
    world,          \* number of worker processes of the run
    dataset_size,   \* length of the dataset, the size argument of evaluate
    inst,           \* "none", "ready" (constructed), "failed" (__init__ raised)
    variant,        \* the metric class the run is configured with
    prefixArg,      \* the prefix argument the configuration gives __init__
    pathArg,        \* the out_file_path argument it gives (DumpResults)
    prefix,         \* self.prefix
    prefixWarned,   \* __init__ logged 'The prefix is not set ...'
    out_file_path,  \* self.out_file_path (Optional)
    dataset_meta,   \* self._dataset_meta (Optional)
    results,        \* self.results, per worker
    pc,             \* per worker: "idle"; in evaluate "gather", "bcast",
                    \* "clear"; "returned" once evaluate has returned, until
                    \* the worker's next call
    emptyWarned,    \* per worker: its evaluate logged 'got empty ...'
                    \* (this, handed and ret are kept until its next call)
    handed,         \* per worker: the results its evaluate handed to
                    \* collect_results
    metrics,        \* per worker, in evaluate: the local one-element list
    bcast,          \* the object in flight from the main process
    ret,            \* per worker: what its evaluate returned
    round,          \* per worker: number of evaluate calls it has returned from
    computed,       \* per worker: number of compute_metrics calls it has made
    file,           \* content of the file at out_file_path (Optional)
    seen,           \* per worker: the predictions process() was given since
                    \* the last evaluate returned (or since construction)
    fed,            \* per worker: the entries process() appended since then
    tcIn, tcOut, tcDone   \* an application of _to_cpu on its own

vars ==
    << world, dataset_size, inst, variant, prefixArg, pathArg, prefix, prefixWarned,
       out_file_path, dataset_meta, results, pc, emptyWarned, handed,
       metrics, bcast, ret, round, computed, file, seen, fed,
       tcIn, tcOut, tcDone >>

config ==
    << world, dataset_size, inst, variant, prefixArg, pathArg, prefix, prefixWarned,
       out_file_path >>
toCpuVars == << tcIn, tcOut, tcDone >>

\* The ranks of a run; a run has the workers 1..world.
Ranks == {1, 2}
AllWorkers == Ranks
Workers == 1..world

\* A metrics object: None (the placeholder) or a mapping.
NoMetrics == [isNone |-> TRUE, items |-> <<>>]
Mapping(m) == [isNone |-> FALSE, items |-> m]

InitMetric ==
    /\ dataset_size \in Sizes
    /\ inst = "none"
    /\ variant \in Variants
    /\ prefixArg \in PrefixArgs(variant)
    /\ pathArg \in PathArgs(variant)
    /\ prefix = None
    /\ prefixWarned = FALSE
    /\ out_file_path = None
    /\ dataset_meta = None
    /\ results = [w \in AllWorkers |-> <<>>]
    /\ pc = [w \in AllWorkers |-> "idle"]
    /\ emptyWarned = [w \in AllWorkers |-> FALSE]
    /\ handed = [w \in AllWorkers |-> <<>>]
    /\ metrics = [w \in AllWorkers |-> NoMetrics]
    /\ bcast = NoMetrics
    /\ ret = [w \in AllWorkers |-> NoMetrics]
    /\ round = [w \in AllWorkers |-> 0]
    /\ computed = [w \in AllWorkers |-> 0]
    /\ file = None
    /\ seen = [w \in AllWorkers |-> <<>>]
    /\ fed = [w \in AllWorkers |-> <<>>]

InitToCpuIdle ==
    /\ tcIn = Other(0)
    /\ tcOut = Other(0)
    /\ tcDone = FALSE

\* The configurations of the distributed runs: DumpResults with a valid path,
\* a metric with a default prefix, a metric without any prefix.
DistConfigs ==
    { <<"DumpResults", None, Some(OutStem \o ExtPkl)>>,
      <<"AccMetric", None, None>>,
      <<"BareMetric", None, None>> }

\* A run of one or two workers, over a dataset that is shorter than what the
\* workers collect, or not.
Init ==
    /\ world \in Ranks
    /\ InitMetric
    /\ <<variant, prefixArg, pathArg>> \in DistConfigs
    /\ dataset_size \in Sizes \ {0}
    /\ InitToCpuIdle

\* A single-process run, under every configuration.
InitSolo ==
    /\ world = 1
    /\ InitMetric
    /\ InitToCpuIdle

\* ------------------------------------------------------------ construction

\* BaseMetric.__init__ and DumpResults.__init__, on every worker alike (the
\* workers build their instance from the same configuration).  DumpResults
\* runs the base constructor first and then checks the path.
Construct ==
    /\ inst = "none"
    /\ prefix' = ResolvePrefix(prefixArg, default_prefix(variant))
    /\ prefixWarned' = (prefix' = None)
    /\ IF variant = "DumpResults" /\ ~OutFileOk(pathArg[1])
       THEN inst' = "failed" /\ out_file_path' = None      \* raise ValueError
       ELSE inst' = "ready" /\ out_file_path' = pathArg
    /\ UNCHANGED << world, dataset_size, variant, prefixArg, pathArg,
                    dataset_meta, results, pc, emptyWarned, handed,
                    metrics, bcast, ret, round, computed, file, seen, fed,
                    toCpuVars >>

\* The dataset_meta setter (the driver sets it on every worker alike).
SetDatasetMeta(meta) ==
    /\ inst = "ready"
    /\ dataset_meta' = Some(meta)
    /\ UNCHANGED << config, results, pc, emptyWarned, handed, metrics,
                    bcast, ret, round, computed, file, seen, fed, toCpuVars >>

\* Worker w is not inside evaluate.
Idle(w) == pc[w] \in {"idle", "returned"}

\* process(data_batch, data_samples) on worker w.  What the last evaluate
\* logged, took and returned is forgotten.
ProcessBatch(w, batch) ==
    /\ inst = "ready"
    /\ Idle(w)
    /\ Len(results[w]) + Len(batch) <= MaxLen
    /\ results' = [results EXCEPT ![w] = Process(variant, results[w], batch)]
    /\ seen' = [seen EXCEPT ![w] = seen[w] \o batch]
    /\ fed' = [fed EXCEPT ![w] =
                 fed[w] \o SubSeq(results'[w], Len(results[w]) + 1, Len(results'[w]))]
    /\ pc' = [pc EXCEPT ![w] = "idle"]
    /\ emptyWarned' = [emptyWarned EXCEPT ![w] = FALSE]
    /\ handed' = [handed EXCEPT ![w] = <<>>]
    /\ ret' = [ret EXCEPT ![w] = NoMetrics]
    /\ UNCHANGED << config, dataset_meta, metrics, bcast, round, computed, file,
                    toCpuVars >>

\* ---------------------------------------------------------------- evaluate

\* is_main_process(): rank 0.
is_main_process(w) == w = 1

\* Number of collect_results calls worker v has entered.
Deposited(v) == round[v] + (IF Idle(v) THEN 0 ELSE 1)

\* Number of broadcast_object_list calls worker v has come out of.
Received(v) == round[v] + (IF pc[v] = "clear" THEN 1 ELSE 0)

RECURSIVE ConcatUpTo(_, _)
ConcatUpTo(bufs, n) == IF n = 0 THEN <<>> ELSE ConcatUpTo(bufs, n - 1) \o bufs[n]

\* collect_results(results, device): on the main process every worker's
\* results in rank order, cut to size; no list elsewhere.
collect_results(w, bufs, sz) ==
    IF is_main_process(w) THEN Take(ConcatUpTo(bufs, world), sz) ELSE <<>>

\* broadcast_object_list(metrics): what the list holds afterwards.
broadcast_object_list(w, local, sent) == IF is_main_process(w) THEN local ELSE sent

\* dump(results, path): the file's content afterwards.
dump(rs) == Some(rs)

\* Faulty variant: the results are cleared on entry.
EvalCallClearFirst(w) ==
    /\ inst = "ready"
    /\ Idle(w)
    /\ round[w] < MaxRounds
    /\ emptyWarned' = [emptyWarned EXCEPT ![w] = (Len(results[w]) = 0)]
    /\ results' = [results EXCEPT ![w] = <<>>]
    /\ handed' = [handed EXCEPT ![w] = <<>>]
    /\ ret' = [ret EXCEPT ![w] = NoMetrics]
    /\ pc' = [pc EXCEPT ![w] = "gather"]
    /\ UNCHANGED << config, dataset_meta, metrics, bcast, round, computed, file,
                    seen, fed, toCpuVars >>

\* evaluate, from its entry to the call of collect_results: the warning on
\* empty results, and the results handed to the collection.
EvalCall(w) ==
    /\ inst = "ready"
    /\ Idle(w)
    /\ round[w] < MaxRounds
    /\ emptyWarned' = [emptyWarned EXCEPT ![w] = (Len(results[w]) = 0)]
    /\ handed' = [handed EXCEPT ![w] = results[w]]
    /\ ret' = [ret EXCEPT ![w] = NoMetrics]
    /\ pc' = [pc EXCEPT ![w] = "gather"]
    /\ UNCHANGED << config, dataset_meta, results, metrics, bcast, round,
                    computed, file, seen, fed, toCpuVars >>

\* Faulty variant: every worker runs the reduction.
ReducesEverywhere(w) == TRUE

\* if is_main_process():
Reduces(w) == is_main_process(w)

\* results = _to_cpu(results)
ReduceInput(collected) == ToCpuList(collected)

\* evaluate, from the return of collect_results (once every worker has handed
\* its results in) to the call of broadcast_object_list.
EvalReduce(w, sz) ==
    /\ pc[w] = "gather"
    /\ \A v \in Workers : Deposited(v) >= round[w] + 1
    /\ LET collected == collect_results(w, handed, sz)
           onHost == ReduceInput(collected)
           _metrics == ComputeMetrics(variant, onHost)
       IN  IF Reduces(w)
           THEN /\ metrics' = [metrics EXCEPT ![w] = Mapping(AddPrefix(prefix, _metrics))]
                /\ computed' = [computed EXCEPT ![w] = @ + 1]
                /\ file' = IF variant = "DumpResults" THEN dump(onHost) ELSE file
           ELSE /\ metrics' = [metrics EXCEPT ![w] = NoMetrics]
                /\ UNCHANGED << computed, file >>
    /\ pc' = [pc EXCEPT ![w] = "bcast"]
    /\ UNCHANGED << config, dataset_meta, results, emptyWarned, handed,
                    bcast, ret, round, seen, fed, toCpuVars >>

\* Faulty variant: only the main process takes part in the broadcast.
EvalBroadcastMainOnly(w) ==
    /\ pc[w] = "bcast"
    /\ bcast' = IF is_main_process(w) /\ world > 1 THEN metrics[w] ELSE bcast
    /\ pc' = [pc EXCEPT ![w] = "clear"]
    /\ UNCHANGED << config, dataset_meta, results, emptyWarned, handed,
                    metrics, ret, round, computed, file, seen, fed, toCpuVars >>

\* broadcast_object_list(metrics): the main process sends, the others block
\* until it has sent and take what it sent; the object is in flight until the
\* last of them has it.
EvalBroadcast(w) ==
    /\ pc[w] = "bcast"
    /\ is_main_process(w) \/ Received(1) >= round[w] + 1
    /\ metrics' = [metrics EXCEPT ![w] = broadcast_object_list(w, metrics[w], bcast)]
    /\ pc' = [pc EXCEPT ![w] = "clear"]
    /\ bcast' = IF \A v \in Workers \ {w} : Received(v) >= round[1] + 1
                THEN NoMetrics
                ELSE IF is_main_process(w) THEN metrics[w] ELSE bcast
    /\ UNCHANGED << config, dataset_meta, results, emptyWarned, handed,
                    ret, round, computed, file, seen, fed, toCpuVars >>

\* Faulty variant: the results are cleared only when evaluation warned.
EvalReturnClearIfWarned(w) ==
    /\ pc[w] = "clear"
    /\ results' = [results EXCEPT ![w] = IF emptyWarned[w] THEN <<>> ELSE @]
    /\ seen' = [seen EXCEPT ![w] = <<>>]
    /\ fed' = [fed EXCEPT ![w] = <<>>]
    /\ ret' = [ret EXCEPT ![w] = metrics[w]]
    /\ metrics' = [metrics EXCEPT ![w] = NoMetrics]
    /\ round' = [round EXCEPT ![w] = @ + 1]
    /\ pc' = [pc EXCEPT ![w] = "returned"]
    /\ UNCHANGED << config, dataset_meta, emptyWarned, handed, bcast, computed,
                    file, toCpuVars >>

\* Faulty variant: the results are never cleared.
EvalReturnKeepResults(w) ==
    /\ pc[w] = "clear"
    /\ seen' = [seen EXCEPT ![w] = <<>>]
    /\ fed' = [fed EXCEPT ![w] = <<>>]
    /\ ret' = [ret EXCEPT ![w] = metrics[w]]
    /\ metrics' = [metrics EXCEPT ![w] = NoMetrics]
    /\ round' = [round EXCEPT ![w] = @ + 1]
    /\ pc' = [pc EXCEPT ![w] = "returned"]
    /\ UNCHANGED << config, dataset_meta, results, emptyWarned, handed, bcast,
                    computed, file, toCpuVars >>

\* self.results.clear(); return metrics[0]
EvalReturn(w) ==
    /\ pc[w] = "clear"
    /\ results' = [results EXCEPT ![w] = <<>>]
    /\ seen' = [seen EXCEPT ![w] = <<>>]
    /\ fed' = [fed EXCEPT ![w] = <<>>]
    /\ ret' = [ret EXCEPT ![w] = metrics[w]]
    /\ metrics' = [metrics EXCEPT ![w] = NoMetrics]
    /\ round' = [round EXCEPT ![w] = @ + 1]
    /\ pc' = [pc EXCEPT ![w] = "returned"]
    /\ UNCHANGED << config, dataset_meta, emptyWarned, handed, bcast, computed,
                    file, toCpuVars >>

Next ==
    \/ Construct
    \/ \E w \in Workers : \E batch \in Batches : ProcessBatch(w, batch)
    \/ \E w \in Workers : EvalCall(w)
    \/ \E w \in Workers : EvalReduce(w, dataset_size)
    \/ \E w \in Workers : EvalBroadcast(w)
    \/ \E w \in Workers : EvalReturn(w)

Spec == Init /\ [][Next]_vars

NextSolo ==
    \/ Next
    \/ SetDatasetMeta("coco")

SpecSolo == InitSolo /\ [][NextSolo]_vars

\* ------------------------------------------------- _to_cpu on its own

Leaves == { Tensor("gpu", 1), Tensor("cpu", 2), Elem("gpu", 3), Other(4) }

DictKeys == <<"a", "b", "c", "d">>

\* The containers of every type that hold the elements xs.
Containers(xs) ==
    { PyList(xs), PyTuple(xs), PyDict(SubSeq(DictKeys, 1, Len(xs)), xs) }

\* The leaves and the containers of at most MaxWidth leaves.
Flat ==
    Leaves \cup UNION { Containers(xs) : xs \in UNION { [1..n -> Leaves] : n \in 0..MaxWidth } }

\* Flat values wrapped up to d times: alone, or followed by a tuple of one
\* tensor, in a container of each type.
RECURSIVE Nested(_)
Nested(d) ==
    IF d = 0 THEN Flat
    ELSE LET inner == Nested(d - 1)
         IN  inner \cup UNION { Containers(<<v>>) : v \in inner }
                   \cup UNION { Containers(<<v, PyTuple(<<Tensor("gpu", 3)>>)>>) : v \in inner }

InitToCpu ==
    /\ world = 1
    /\ InitMetric
    /\ dataset_size = 0
    /\ <<variant, prefixArg, pathArg>> = <<"BareMetric", None, None>>
    /\ tcIn \in Nested(MaxDepth)
    /\ tcOut = Other(0)
    /\ tcDone = FALSE

ApplyToCpu ==
    /\ ~tcDone
    /\ tcOut' = _to_cpu(tcIn)
    /\ tcDone' = TRUE
    /\ UNCHANGED << config, dataset_meta, results, pc, emptyWarned, handed,
                    metrics, bcast, ret, round, computed, file, seen, fed, tcIn >>

NextToCpu == ApplyToCpu

SpecToCpu == InitToCpu /\ [][NextToCpu]_vars

\* ------------------------------------------------------------------ claims

\* m with every key k replaced by p/k.
Prefixed(p, m) == [i \in 1..Len(m) |-> <<p \o "/" \o m[i][1], m[i][2]>>]

\* Every worker's sequence of bufs, one after the other in rank order.
InRankOrder(bufs) == ConcatUpTo(bufs, world)

InEvaluate(w) == pc[w] \in {"gather", "bcast", "clear"}

\* C1: once evaluate has returned on a worker, its self.results is empty,
\* whether or not the evaluation warned about empty results.
C1_ClearedAfterEvaluate ==
    \A w \in Workers : pc[w] = "returned" => results[w] = <<>>

\* Both workers have returned from evaluate; one had warned, one had results.
C1_Witness ==
    /\ world = 2
    /\ pc[1] = "returned" /\ ~emptyWarned[1] /\ Len(handed[1]) = 2
    /\ pc[2] = "returned" /\ emptyWarned[2]
    /\ results[1] = <<>> /\ results[2] = <<>>

\* C2 as stated: in a single-worker run evaluate(size) returns
\* compute_metrics(R[:size]), every key prefixed with prefix + "/" when the
\* prefix is set (not None) and unchanged when it is not set.
C2_AsStated ==
    world = 1 /\ pc[1] = "returned" =>
        LET m == ComputeMetrics(variant, Take(handed[1], dataset_size))
        IN  ret[1] = Mapping(IF prefix # None THEN Prefixed(prefix[1], m) ELSE m)

\* C2 as amended: in a single-worker run evaluate(size) returns compute_metrics
\* of the host copies of R[:size], every key prefixed with prefix + "/" when
\* the prefix is a non-empty string and unchanged when it is None or ''.
C2_SoloEvaluate ==
    world = 1 /\ pc[1] = "returned" =>
        LET m == ComputeMetrics(variant, ToCpuList(Take(handed[1], dataset_size)))
        IN  ret[1] = Mapping(IF prefix # None /\ prefix[1] # ""
                             THEN Prefixed(prefix[1], m) ELSE m)

\* A single worker has evaluated two results, cut to one, under the prefix m.
C2_Witness ==
    /\ world = 1 /\ pc[1] = "returned"
    /\ prefix = Some("m") /\ dataset_size = 1 /\ Len(handed[1]) = 2
    /\ ret[1] = Mapping(<< <<"m/n", 1>>, <<"m/host", 1>> >>)

\* C3: the workers that have returned from the same round of evaluate hold
\* the same mapping, never the placeholder None; it is the prefixed mapping
\* computed from what all workers handed in.
C3_SameMetricsEverywhere ==
    /\ \A w \in Workers : pc[w] = "returned" => ~ret[w].isNone
    /\ \A w, v \in Workers :
          pc[w] = "returned" /\ pc[v] = "returned" /\ round[w] = round[v]
              => ret[w] = ret[v]
    /\ (\A v \in Workers : pc[v] = "returned" /\ round[v] = round[1]) =>
          \A w \in Workers :
              ret[w] = Mapping(AddPrefix(prefix, ComputeMetrics(variant,
                          ToCpuList(Take(InRankOrder(handed), dataset_size)))))

\* Two workers have returned from a round in which only worker 2 had results.
C3_Witness ==
    /\ world = 2 /\ pc[1] = "returned" /\ pc[2] = "returned"
    /\ round[1] = round[2]
    /\ handed[1] = <<>> /\ Len(handed[2]) = 2
    /\ ret[2] = Mapping(<< <<"acc/n", 2>>, <<"acc/host", 2>> >>)

\* C4: when DumpResults has reduced on the main process, the file holds the
\* host copies of the predictions every worker processed in this round, worker
\* after worker in rank order and each worker's in the order it processed
\* them, cut to size; and compute_metrics returned {}.
C4_DumpedInGatherOrder ==
    variant = "DumpResults" /\ pc[1] = "bcast" =>
        /\ file = Some(Take(InRankOrder([w \in AllWorkers |->
                        [i \in 1..Len(seen[w]) |-> _to_cpu(seen[w][i])]]),
                        dataset_size))
        /\ metrics[1] = Mapping(<<>>)

\* Two workers processed one prediction each and the main process has dumped
\* both, worker 1's first.
C4_Witness ==
    /\ variant = "DumpResults" /\ world = 2 /\ pc[1] = "bcast"
    /\ Len(seen[1]) = 1 /\ Len(seen[2]) = 1 /\ seen[1] # seen[2]
    /\ file = Some(<<_to_cpu(seen[1][1]), _to_cpu(seen[2][1])>>)

\* The extension of a path: from its last dot on (nothing without a dot).
Extension(path) ==
    LET dots == { i \in 1..Len(path) : path[i] = "." }
    IN  IF dots = {} THEN <<>>
        ELSE SubSeq(path, CHOOSE i \in dots : \A j \in dots : j <= i, Len(path))

\* C5: constructing DumpResults fails exactly when the extension of the path
\* is neither '.pkl' nor '.pickle'; when it succeeds the path is stored, when
\* it fails no path is stored and the instance is never used.
C5_PathValidated ==
    variant = "DumpResults" /\ inst # "none" =>
        /\ inst = "failed" <=> Extension(pathArg[1]) \notin {ExtPkl, ExtPickle}
        /\ inst = "ready" => out_file_path = pathArg
        /\ inst = "failed" =>
              /\ out_file_path = None
              /\ file = None
              /\ \A w \in Workers : pc[w] = "idle" /\ results[w] = <<>> /\ round[w] = 0

\* The construction with "out.json" has failed.
C5_Witness ==
    /\ variant = "DumpResults" /\ inst = "failed"
    /\ pathArg = Some(OutStem \o <<".", "j", "s", "o", "n">>)

\* y is x with the same container types, lengths, order and keys, every
\* tensor-like leaf on the host and every other leaf as it was.
RECURSIVE Relocated(_, _)
Relocated(x, y) ==
    /\ y.tag = x.tag
    /\ y.keys = x.keys
    /\ Len(y.items) = Len(x.items)
    /\ IF x.tag \in {"tensor", "elem"} THEN y.dev = "cpu" /\ y.val = x.val
       ELSE IF x.tag = "other" THEN y = x
       ELSE /\ y.dev = x.dev /\ y.val = x.val
            /\ \A i \in 1..Len(x.items) : Relocated(x.items[i], y.items[i])

\* C6: _to_cpu returns (so the recursion has ended) a value of the same
\* structure as its argument, the tensor-like leaves on the host.
C6_StructurePreserved == tcDone => Relocated(tcIn, tcOut)

\* _to_cpu has been applied to a mapping of a list of two tensors and a tuple
\* of one, and has moved a tensor.
C6_Witness ==
    /\ tcDone
    /\ tcIn = PyDict(<<"a", "b">>, << PyList(<<Tensor("gpu", 1), Tensor("cpu", 2)>>),
                                     PyTuple(<<Tensor("gpu", 3)>>) >>)
    /\ tcOut # tcIn

\* C7 as stated: the prefix is resolved at construction to the constructor
\* argument if one is given (not None), otherwise to default_prefix; without
\* either, construction goes on with a warning; nothing changes it later.
C7_AsStated ==
    inst # "none" =>
        /\ prefix = (IF prefixArg # None THEN prefixArg ELSE default_prefix(variant))
        /\ prefixWarned <=> (prefixArg = None /\ default_prefix(variant) = None)

\* C8: compute_metrics has run once per round on the main process and never
\* on another worker; so only the main process has written the file.
C8_ReducedOnMainOnly ==
    /\ \A w \in Workers :
          computed[w] = IF is_main_process(w)
                        THEN round[w] + (IF pc[w] \in {"bcast", "clear"} THEN 1 ELSE 0)
                        ELSE 0
    /\ file # None => variant = "DumpResults" /\ computed[1] >= 1

\* Worker 2 has been through two rounds of DumpResults without computing.
C8_Witness ==
    /\ world = 2 /\ variant = "DumpResults"
    /\ pc[2] = "returned" /\ round[2] = 2
    /\ computed[1] = 2 /\ computed[2] = 0
    /\ file # None

\* C9: a worker returns from evaluate only after every worker has handed its
\* results to the collection and the main process has computed the metrics
\* and broadcast them; and a worker's results are emptied only by the clear at
\* the end of evaluate, after it handed them to the collection.
C9_RoundIsBarrier ==
    [][\A w \in Workers :
          /\ pc[w] = "clear" /\ pc'[w] = "returned" =>
                /\ \A v \in Workers : Deposited(v) >= round[w] + 1
                /\ computed[1] >= round[w] + 1
                /\ Received(1) >= round[w] + 1
          /\ results[w] # <<>> /\ results'[w] = <<>> =>
                pc[w] = "clear" /\ handed[w] = results[w]
      ]_vars

\* Worker 2 has returned from the first round with results; the main process
\* has broadcast and not yet returned.
C9_Witness ==
    /\ world = 2 /\ round[2] = 1 /\ pc[2] = "returned" /\ handed[2] # <<>>
    /\ round[1] = 0 /\ pc[1] = "clear"

\* C10: what a worker hands to the collection is exactly what process()
\* appended since construction or since its previous evaluate returned, in the
\* order it was appended; outside evaluate self.results holds just that.
C10_RoundsIsolated ==
    \A w \in Workers :
        /\ InEvaluate(w) => handed[w] = fed[w]
        /\ Idle(w) => results[w] = fed[w]

\* A worker is in its second evaluate with two different entries appended
\* since the first.
C10_Witness ==
    \E w \in Workers :
        /\ round[w] = 1 /\ pc[w] = "gather"
        /\ Len(handed[w]) = 2 /\ handed[w][1] # handed[w][2]

====
